---- MODULE Spec2Model ----
(***************************************************************************)
(* Model of WebCrawlerComponent (src/adv_web_crawler.py): the breadth-first *)
(* crawl loop of crawl(), with fetch_page, get_robots_and_sitemap,          *)
(* parse_html and the link discovery of the loop body.                      *)
(*                                                                          *)
(* A URL is a pair <<netloc, path>>.  An href of a page is absolute,        *)
(* relative to the page, or malformed (urljoin raises ValueError on it).    *)
(***************************************************************************)
EXTENDS Integers, Sequences, FiniteSets, TLC

\* ------------------------------------------------------------------ bounds
\* largest max_depth input tried
MaxDepthBound == 2
\* number of negative max_depth inputs tried
NegDepths == 1

\* longest paragraph concatenation tried
MaxTextLen == 4
\* largest max_content_length input tried
MaxLimit == 3
\* number of negative max_content_length inputs tried
NegLimits == 2
\* longest result list given to the table projection
MaxRows == 2

\* --------------------------------------------------------------- defaults
\* value=10000 of the max_content_length input
DefaultMaxContentLength == 10000
\* paths 0..MaxPath exist on the seed's host
MaxPath == 2

\* ------------------------------------------------------------- the inputs
SeedHost == "a"
OtherHost == "x"

Paths == 0..MaxPath

URLs == ({SeedHost} \X Paths) \cup {<<OtherHost, 0>>}

\* self.url, the seed
url == <<SeedHost, 0>>

Rel(p) == [kind |-> "rel", path |-> p]
Abs(h, p) == [kind |-> "abs", host |-> h, path |-> p]
Bad == [kind |-> "bad"]

\* urlparse(u).netloc
netloc(u) == u[1]

\* urljoin(base, href) raises on a malformed href (e.g. "http://[")
urljoin_raises(href) == href.kind = "bad"

\* urljoin(base, href) where it does not raise
urljoin(base, href) ==
    IF href.kind = "abs" THEN <<href.host, href.path>>
    ELSE <<netloc(base), href.path>>

\* ---------------------------------------------------------------- the web
\* What a server answers for a URL: the declared Content-Type, whether the
\* body parses as JSON, and the <a href> values BeautifulSoup finds in it.
Html(hrefs) == [ctype |-> "text/html", json_ok |-> FALSE, hrefs |-> hrefs]
JsonDoc(ctype, ok, hrefs) == [ctype |-> ctype, json_ok |-> ok, hrefs |-> hrefs]

nextPath(p, k) == (p + k) % (MaxPath + 1)

\* fan-out with a self-link: link cycles through every page of the host
PageFan(p) == Html(<<Rel(nextPath(p, 1)), Rel(nextPath(p, 2)), Rel(p)>>)
\* an external link, a link back to the seed and the same link twice
PageExt(p) == Html(<<Abs(OtherHost, 0), Rel(nextPath(p, 1)), Rel(nextPath(p, 1))>>)
\* a malformed href between two good ones
PageBad(p) == Html(<<Rel(nextPath(p, 1)), Bad, Rel(nextPath(p, 2))>>)
\* a JSON document, with an anchor in one of its strings
PageJson(p) == JsonDoc("application/json; charset=utf-8", TRUE, <<Rel(nextPath(p, 1))>>)
\* an HTML body served with a JSON content type
PageMislabelled(p) == JsonDoc("application/json", FALSE, <<Rel(nextPath(p, 1))>>)

PageOptions(u) ==
    IF netloc(u) = OtherHost THEN {Html(<<Abs(OtherHost, 0), Abs(SeedHost, 1)>>)}
    ELSE IF u = url THEN {PageFan(0), PageExt(0), PageBad(0), PageJson(0), PageMislabelled(0)}
    ELSE IF u[2] % 2 = 1 THEN {PageFan(u[2]), PageJson(u[2])}
    ELSE {PageExt(u[2]), PageBad(u[2])}

Sites == {s \in [URLs -> UNION {PageOptions(u) : u \in URLs}] :
             \A u \in URLs : s[u] \in PageOptions(u)}

\* requests.get outcomes
FetchOutcomes == {"ok", "connection_error", "http_error", "timeout"}

\* robots.txt bodies: a list of lines [key, colon, value]
Line(key, value) == [key |-> key, colon |-> TRUE, value |-> value]
NoColon(key) == [key |-> key, colon |-> FALSE, value |-> url]

RobotsTexts ==
    { <<>>,
      <<Line("User-agent", url), NoColon("Sitemap")>>,
      <<Line("User-agent", url), Line("Sitemap", <<SeedHost, 1>>)>>,
      <<Line("SITEMAP", <<OtherHost, 0>>), Line("Disallow", url), Line("sitemap", url)>> }

VARIABLES
    max_depth,                \* self.max_depth
    same_domain_only,         \* self.same_domain_only
    content_type_preference,  \* self.content_type_preference
    extract_links,            \* self.extract_links
    include_metadata,         \* self.include_metadata
    include_headings,         \* self.include_headings
    include_paragraphs,       \* self.include_paragraphs
    extract_images,           \* self.extract_images
    max_content_length,       \* self.max_content_length
    site,                     \* the pages behind the URLs
    pc,                       \* position in crawl()
    visited,                  \* visited = set()
    queue,                    \* queue = deque(...)
    results,                  \* results = []
    current_url,              \* of the entry popped last
    depth,                    \* of the entry popped last
    response,                 \* response = self.fetch_page(current_url)
    sitemaps,                 \* sitemaps = self.get_robots_and_sitemap(self.url)
    robots_failed,            \* the robots.txt request raised
    fetchLog,                 \* URLs passed to fetch_page, in order
    failed,                   \* URLs for which fetch_page returned None
    enqueued,                 \* number of queue.append / initial entries
    dequeued,                 \* number of queue.popleft
    enqLog,                   \* the entries put in the queue, in order
    deqLog,                   \* the entries popped from the queue, in order
    run,                      \* number of the crawl() invocation
    down,                     \* URLs whose server answers no request
    first,                    \* how the first invocation ended
    flipped,                  \* extract_links was toggled between the invocations
    full_text,                \* full_text = " ".join(paragraphs)
    paragraphs,               \* data["paragraphs"]
    rows                      \* rows of get_table_output

features == <<include_metadata, include_headings, include_paragraphs, extract_images, max_content_length>>
config == <<max_depth, same_domain_only, content_type_preference, extract_links, features, site>>
hist == <<sitemaps, robots_failed, fetchLog, failed, enqueued, dequeued, enqLog, deqLog>>
\* what the loop of crawl() does not touch
outside == <<run, down, first, flipped, full_text, paragraphs, rows>>
vars == <<config, pc, visited, queue, results, current_url, depth, response, hist, outside>>

\* ------------------------------------------------- get_robots_and_sitemap
\* line.lower()
lower(key) ==
    IF key \in {"Sitemap", "SITEMAP", "sitemap"} THEN "sitemap"
    ELSE IF key = "User-agent" THEN "user-agent"
    ELSE "disallow"

RECURSIVE sitemap_lines(_)
\* the for loop over res.text.splitlines()
sitemap_lines(lines) ==
    IF lines = <<>> THEN <<>>
    ELSE LET line == Head(lines)
             rest == sitemap_lines(Tail(lines))
         IN IF lower(line.key) = "sitemap" /\ line.colon
            THEN <<line.value>> \o rest
            ELSE rest

\* mutant of get_robots_and_sitemap: raise_for_status is missing
get_robots_and_sitemap_unchecked(answer) == sitemap_lines(answer.text)

\* the sitemap list returned for an answer [outcome, text] of the request
get_robots_and_sitemap(answer) ==
    IF answer.outcome # "ok" THEN <<>> ELSE sitemap_lines(answer.text)

\* an answer with a status carries a body, also when the status is an error
RobotsAnswers ==
    [outcome : {"connection_error", "timeout"}, text : {<<>>}]
        \cup [outcome : {"ok", "http_error"}, text : RobotsTexts]

\* ------------------------------------------------------------- fetch_page
\* the response, or None
None == [none |-> TRUE]

fetch_page(u, outcome) == IF outcome = "ok" THEN site[u] ELSE None

\* ------------------------------------------------------------- parse_html
RECURSIVE links_of(_, _)
\* [urljoin(url, a.get("href")) for a in soup.find_all("a", href=True)]
links_of(u, hrefs) ==
    IF hrefs = <<>> THEN <<>>
    ELSE <<urljoin(u, Head(hrefs))>> \o links_of(u, Tail(hrefs))

\* the hrefs of a list that urljoin resolves
good(hrefs) == SelectSeq(hrefs, LAMBDA h : ~urljoin_raises(h))

has_bad(hrefs) == \E i \in 1..Len(hrefs) : urljoin_raises(hrefs[i])

\* parse_html raises when the links comprehension meets a malformed href
parse_html_raises(page) == extract_links /\ has_bad(page.hrefs)

\* the pages of Sites have no title, meta description, heading, <p> or <img>
page_text(page) == <<>>

\* full_text[:max_content_length] of Python, also for a negative length
slice_to(text, n) ==
    IF n >= 0 THEN SubSeq(text, 1, IF n < Len(text) THEN n ELSE Len(text))
    ELSE SubSeq(text, 1, IF Len(text) + n > 0 THEN Len(text) + n ELSE 0)

\* mutant of truncate: >= instead of >
truncate_at_limit(text, n) ==
    IF Len(text) >= n THEN slice_to(text, n) \o <<".", ".", ".">> ELSE text

\* lines 88-89
truncate(text, n) ==
    IF Len(text) > n THEN slice_to(text, n) \o <<".", ".", ".">> ELSE text

\* the keys of data
html_fields ==
    {"url"} \cup (IF include_metadata THEN {"metadata"} ELSE {})
            \cup (IF include_headings THEN {"headings"} ELSE {})
            \cup (IF include_paragraphs THEN {"paragraphs"} ELSE {})
            \cup (IF extract_images THEN {"images"} ELSE {})
            \cup (IF extract_links THEN {"links"} ELSE {})

parse_html(page, u) ==
    [f \in html_fields |->
        CASE f = "url" -> u
          [] f = "metadata" -> [title |-> "", description |-> ""]
          [] f = "headings" -> [h \in 1..6 |-> <<>>]
          [] f = "paragraphs" -> truncate(page_text(page), max_content_length)
          [] f = "images" -> <<>>
          [] f = "links" -> links_of(u, page.hrefs)]

\* ------------------------------------------------------------------ crawl
\* "application/json" in content_type
contains_application_json(content_type) ==
    content_type \in {"application/json", "application/json; charset=utf-8"}

\* mutant of is_json: the header decides whenever the preference is not "json"
is_json_sniff_always(page) ==
    \/ content_type_preference = "json"
    \/ contains_application_json(page.ctype)

\* line 140: the response goes the JSON way
is_json(page) ==
    \/ content_type_preference = "json"
    \/ (contains_application_json(page.ctype) /\ content_type_preference = "auto")

\* domain = urlparse(self.url).netloc
domain == netloc(url)

\* mutant of skip: the visited test at dequeue is missing
skip_depth_only(entry) == entry[2] > max_depth

\* line 129: the popped entry is skipped
skip(entry) == entry[1] \in visited \/ entry[2] > max_depth

\* mutant of may_expand: the depth test of line 152 is missing
may_expand_always(d) == TRUE

\* mutant of may_expand: off by one, a page at max_depth is expanded
may_expand_inclusive(d) == d <= max_depth

\* line 152: the links of a page at depth d are followed
may_expand(d) == d < max_depth

RECURSIVE discover_any_domain(_, _, _, _, _)
\* mutant of discover: the same-domain test of line 156 is missing
discover_any_domain(base, hrefs, q, d, seen) ==
    IF hrefs = <<>> THEN [queue |-> q, raised |-> FALSE, added |-> <<>>]
    ELSE IF urljoin_raises(Head(hrefs)) THEN [queue |-> q, raised |-> TRUE, added |-> <<>>]
    ELSE LET link == urljoin(base, Head(hrefs))
         IN IF link \notin seen
            THEN LET rest == discover_any_domain(base, Tail(hrefs), Append(q, <<link, d + 1>>), d, seen)
                 IN [rest EXCEPT !.added = <<<<link, d + 1>>>> \o @]
            ELSE discover_any_domain(base, Tail(hrefs), q, d, seen)

RECURSIVE discover_no_visited_test(_, _, _, _, _)
\* mutant of discover: the visited test of line 158 is missing
discover_no_visited_test(base, hrefs, q, d, seen) ==
    IF hrefs = <<>> THEN [queue |-> q, raised |-> FALSE, added |-> <<>>]
    ELSE IF urljoin_raises(Head(hrefs)) THEN [queue |-> q, raised |-> TRUE, added |-> <<>>]
    ELSE LET link == urljoin(base, Head(hrefs))
         IN IF same_domain_only /\ netloc(link) # domain
            THEN discover_no_visited_test(base, Tail(hrefs), q, d, seen)
            ELSE LET rest == discover_no_visited_test(base, Tail(hrefs), Append(q, <<link, d + 1>>), d, seen)
                 IN [rest EXCEPT !.added = <<<<link, d + 1>>>> \o @]

RECURSIVE discover_front(_, _, _, _, _)
\* mutant of discover: appendleft, the new entries go in front of the queue
discover_front(base, hrefs, q, d, seen) ==
    IF hrefs = <<>> THEN [queue |-> q, raised |-> FALSE, added |-> <<>>]
    ELSE IF urljoin_raises(Head(hrefs)) THEN [queue |-> q, raised |-> TRUE, added |-> <<>>]
    ELSE LET link == urljoin(base, Head(hrefs))
         IN IF same_domain_only /\ netloc(link) # domain
            THEN discover_front(base, Tail(hrefs), q, d, seen)
            ELSE IF link \notin seen
                 THEN LET rest == discover_front(base, Tail(hrefs), <<<<link, d + 1>>>> \o q, d, seen)
                      IN [rest EXCEPT !.added = <<<<link, d + 1>>>> \o @]
                 ELSE discover_front(base, Tail(hrefs), q, d, seen)

RECURSIVE discover(_, _, _, _, _)
\* lines 154-159: the for loop over the anchors of the page at base, with the
\* visited set seen; q is the queue so far; the loop stops at the first href
\* on which urljoin raises; added is what the loop appended
discover(base, hrefs, q, d, seen) ==
    IF hrefs = <<>> THEN [queue |-> q, raised |-> FALSE, added |-> <<>>]
    ELSE IF urljoin_raises(Head(hrefs)) THEN [queue |-> q, raised |-> TRUE, added |-> <<>>]
    ELSE LET link == urljoin(base, Head(hrefs))
         IN IF same_domain_only /\ netloc(link) # domain
            THEN discover(base, Tail(hrefs), q, d, seen)
            ELSE IF link \notin seen
                 THEN LET rest == discover(base, Tail(hrefs), Append(q, <<link, d + 1>>), d, seen)
                      IN [rest EXCEPT !.added = <<<<link, d + 1>>>> \o @]
                 ELSE discover(base, Tail(hrefs), q, d, seen)

RECURSIVE seed_entries_same_domain(_)
\* mutant of seed_entries: the sitemap URLs pass the domain filter of the links
seed_entries_same_domain(list) ==
    IF list = <<>> THEN <<>>
    ELSE IF same_domain_only /\ netloc(Head(list)) # domain
         THEN seed_entries_same_domain(Tail(list))
         ELSE <<<<Head(list), 0>>>> \o seed_entries_same_domain(Tail(list))

RECURSIVE seed_entries(_)
\* queue.append((sitemap_url, 0)) for each sitemap
seed_entries(list) ==
    IF list = <<>> THEN <<>>
    ELSE <<<<Head(list), 0>>>> \o seed_entries(Tail(list))

Init ==
    /\ max_depth \in (0 - NegDepths)..MaxDepthBound
    /\ same_domain_only \in BOOLEAN
    /\ content_type_preference \in {"auto", "json", "html"}
    /\ extract_links \in BOOLEAN
    /\ include_metadata = TRUE
    /\ include_headings = TRUE
    /\ include_paragraphs = TRUE
    /\ extract_images = FALSE
    /\ max_content_length = DefaultMaxContentLength
    /\ site \in Sites
    /\ pc = "Idle"
    /\ visited = {}
    /\ queue = <<>>
    /\ results = <<>>
    /\ current_url = url
    /\ depth = 0
    /\ response = None
    /\ sitemaps = <<>>
    /\ robots_failed = FALSE
    /\ fetchLog = <<>>
    /\ failed = {}
    /\ enqueued = 0
    /\ dequeued = 0
    /\ enqLog = <<>>
    /\ deqLog = <<>>
    /\ run = 1
    /\ down = {}
    /\ first = None
    /\ flipped = FALSE
    /\ full_text = <<>>
    /\ paragraphs = <<>>
    /\ rows = <<>>

\* mutant of Start: visited is kept on the component, not made anew
Start_keeps_visited(answer) ==
    /\ pc = "Idle"
    /\ visited' = visited
    /\ results' = <<>>
    /\ sitemaps' = get_robots_and_sitemap(answer)
    /\ queue' = <<<<url, 0>>>> \o seed_entries(sitemaps')
    /\ enqueued' = Len(queue')
    /\ enqLog' = queue'
    /\ robots_failed' = (answer.outcome # "ok")
    /\ pc' = "Dequeuing"
    /\ UNCHANGED <<config, current_url, depth, response, fetchLog, failed, dequeued, deqLog, outside>>

\* lines 117-125
Start(answer) ==
    /\ pc = "Idle"
    /\ visited' = {}
    /\ results' = <<>>
    /\ sitemaps' = get_robots_and_sitemap(answer)
    /\ queue' = <<<<url, 0>>>> \o seed_entries(sitemaps')
    /\ enqueued' = Len(queue')
    /\ enqLog' = queue'
    /\ robots_failed' = (answer.outcome # "ok")
    /\ pc' = "Dequeuing"
    /\ UNCHANGED <<config, current_url, depth, response, fetchLog, failed, dequeued, deqLog, outside>>

\* lines 128-130: pop, and skip a visited or too deep entry
Discard ==
    /\ pc = "Dequeuing"
    /\ queue # <<>>
    /\ skip(Head(queue))
    /\ current_url' = Head(queue)[1]
    /\ depth' = Head(queue)[2]
    /\ queue' = Tail(queue)
    /\ dequeued' = dequeued + 1
    /\ deqLog' = Append(deqLog, Head(queue))
    /\ UNCHANGED <<config, pc, visited, results, response, sitemaps, robots_failed, fetchLog, failed, enqueued, enqLog, outside>>

\* lines 128-133: pop, and call fetch_page on the entry
BeginFetch ==
    /\ pc = "Dequeuing"
    /\ queue # <<>>
    /\ ~skip(Head(queue))
    /\ current_url' = Head(queue)[1]
    /\ depth' = Head(queue)[2]
    /\ fetchLog' = Append(fetchLog, Head(queue)[1])
    /\ queue' = Tail(queue)
    /\ dequeued' = dequeued + 1
    /\ deqLog' = Append(deqLog, Head(queue))
    /\ pc' = "Fetching"
    /\ UNCHANGED <<config, visited, results, response, sitemaps, robots_failed, failed, enqueued, enqLog, outside>>

\* line 133: fetch_page returns the response or None
Fetch(outcome) ==
    /\ pc = "Fetching"
    /\ response' = fetch_page(current_url, outcome)
    /\ failed' = IF response' = None THEN failed \cup {current_url} ELSE failed
    /\ pc' = "Classifying"
    /\ UNCHANGED <<config, visited, queue, results, current_url, depth, sitemaps, robots_failed, fetchLog, enqueued, dequeued, enqLog, deqLog, outside>>

\* mutant of SkipFailed: return instead of continue
SkipFailed_return ==
    /\ pc = "Classifying"
    /\ response = None
    /\ pc' = "Done"
    /\ UNCHANGED <<config, visited, queue, results, current_url, depth, response, hist, outside>>

\* lines 134-135: if not response: continue
SkipFailed ==
    /\ pc = "Classifying"
    /\ response = None
    /\ pc' = "Dequeuing"
    /\ UNCHANGED <<config, visited, queue, results, current_url, depth, response, hist, outside>>

\* mutant of JsonPage: the continue of line 144 is missing, the body goes on
\* to parse_html and the link loop
JsonPage_no_continue ==
    /\ pc = "Classifying"
    /\ response # None
    /\ is_json(response)
    /\ response.json_ok
    /\ visited' = visited \cup {current_url}
    /\ results' = results \o <<[url |-> current_url, json |-> "body"], parse_html(response, current_url)>>
    /\ LET found == discover(current_url, good(response.hrefs), queue, depth, visited')
       IN IF may_expand(depth)
          THEN /\ queue' = found.queue
               /\ enqueued' = enqueued + Len(found.added)
               /\ enqLog' = enqLog \o found.added
          ELSE UNCHANGED <<queue, enqueued, enqLog>>
    /\ pc' = "Dequeuing"
    /\ UNCHANGED <<config, current_url, depth, response, sitemaps, robots_failed, fetchLog, failed, dequeued, deqLog, outside>>

\* lines 137-144: a response taken as JSON that parses
JsonPage ==
    /\ pc = "Classifying"
    /\ response # None
    /\ is_json(response)
    /\ response.json_ok
    /\ visited' = visited \cup {current_url}
    /\ results' = Append(results, [url |-> current_url, json |-> "body"])
    /\ pc' = "Dequeuing"
    /\ UNCHANGED <<config, queue, current_url, depth, response, hist, outside>>

\* mutant of JsonError: the except branch falls back to the HTML extractor
JsonError_fallback ==
    /\ pc = "Classifying"
    /\ response # None
    /\ is_json(response)
    /\ ~response.json_ok
    /\ visited' = visited \cup {current_url}
    /\ results' = Append(results, [url |-> current_url])
    /\ pc' = "Dequeuing"
    /\ UNCHANGED <<config, queue, current_url, depth, response, hist, outside>>

\* lines 137-147: a response taken as JSON that does not parse
JsonError ==
    /\ pc = "Classifying"
    /\ response # None
    /\ is_json(response)
    /\ ~response.json_ok
    /\ visited' = visited \cup {current_url}
    /\ pc' = "Dequeuing"
    /\ UNCHANGED <<config, queue, results, current_url, depth, response, hist, outside>>

\* lines 137-159: a response taken as HTML
HtmlPage ==
    /\ pc = "Classifying"
    /\ response # None
    /\ ~is_json(response)
    /\ visited' = visited \cup {current_url}
    /\ IF parse_html_raises(response)
       THEN /\ pc' = "Raised"
            /\ UNCHANGED <<queue, results, enqueued, enqLog>>
       ELSE /\ results' = Append(results, parse_html(response, current_url))
            /\ IF may_expand(depth)
               THEN LET found == discover(current_url, response.hrefs, queue, depth, visited')
                    IN /\ queue' = found.queue
                       /\ enqueued' = enqueued + (Len(found.queue) - Len(queue))
                       /\ enqLog' = enqLog \o found.added
                       /\ pc' = IF found.raised THEN "Raised" ELSE "Dequeuing"
               ELSE /\ pc' = "Dequeuing"
                    /\ UNCHANGED <<queue, enqueued, enqLog>>
    /\ UNCHANGED <<config, current_url, depth, response, sitemaps, robots_failed, fetchLog, failed, dequeued, deqLog, outside>>

\* line 127 with an empty queue, line 160
Finish ==
    /\ pc = "Dequeuing"
    /\ queue = <<>>
    /\ pc' = "Done"
    /\ UNCHANGED <<config, visited, queue, results, current_url, depth, response, hist, outside>>

Next ==
    \/ \E answer \in RobotsAnswers : Start(answer)
    \/ Discard
    \/ BeginFetch
    \/ \E outcome \in FetchOutcomes : Fetch(outcome)
    \/ SkipFailed
    \/ JsonPage
    \/ JsonError
    \/ HtmlPage
    \/ Finish

Spec == Init /\ [][Next]_vars

\* every call of the loop body returns: requests time out, the body is finite
LiveSpec == Init /\ [][Next]_vars /\ WF_vars(Next)

TypeOK ==
    /\ pc \in {"Idle", "Dequeuing", "Fetching", "Classifying", "Done", "Raised"}
    /\ visited \subseteq URLs
    /\ \A i \in 1..Len(queue) : queue[i][1] \in URLs /\ queue[i][2] \in 0..(MaxDepthBound + 1)
    /\ enqueued = dequeued + Len(queue)

\* --------------------------------------- two invocations on the same site
\* the sets of servers that are down
DownSets == {{}} \cup {{u} : u \in URLs}

\* as Init, on a site where the servers in down answer no request
TwoRunInit ==
    /\ max_depth \in (0 - NegDepths)..MaxDepthBound
    /\ same_domain_only \in BOOLEAN
    /\ content_type_preference \in {"auto", "json", "html"}
    /\ extract_links \in BOOLEAN
    /\ include_metadata = TRUE
    /\ include_headings = TRUE
    /\ include_paragraphs = TRUE
    /\ extract_images = FALSE
    /\ max_content_length = DefaultMaxContentLength
    /\ site \in Sites
    /\ down \in DownSets
    /\ pc = "Idle"
    /\ visited = {}
    /\ queue = <<>>
    /\ results = <<>>
    /\ current_url = url
    /\ depth = 0
    /\ response = None
    /\ sitemaps = <<>>
    /\ robots_failed = FALSE
    /\ fetchLog = <<>>
    /\ failed = {}
    /\ enqueued = 0
    /\ dequeued = 0
    /\ enqLog = <<>>
    /\ deqLog = <<>>
    /\ run = 1
    /\ first = None
    /\ flipped = FALSE
    /\ full_text = <<>>
    /\ paragraphs = <<>>
    /\ rows = <<>>

\* lines 117-125 on an unchanged site: the second invocation gets the
\* sitemap list the first one got
StartOnSite(answer) ==
    /\ run = 2 => get_robots_and_sitemap(answer) = first.sitemaps
    /\ Start(answer)

\* line 133 on an unchanged site: a server that is down stays down
FetchOnSite ==
    Fetch(IF current_url \in down THEN "connection_error" ELSE "ok")

\* lines 163 and 179: get_structured_data and get_table_output each call
\* crawl(); the locals of the first call are dead, the second call assigns
\* its own at lines 117-125; the host may toggle extract_links in between
Reinvoke(flip) ==
    /\ pc \in {"Done", "Raised"}
    /\ run = 1
    /\ run' = 2
    /\ first' = [pc |-> pc, results |-> results, fetchLog |-> fetchLog, sitemaps |-> sitemaps]
    /\ flipped' = flip
    /\ extract_links' = IF flip THEN ~extract_links ELSE extract_links
    /\ pc' = "Idle"
    /\ robots_failed' = FALSE
    /\ fetchLog' = <<>>
    /\ failed' = {}
    /\ enqueued' = 0
    /\ dequeued' = 0
    /\ enqLog' = <<>>
    /\ deqLog' = <<>>
    /\ UNCHANGED <<max_depth, same_domain_only, content_type_preference, features, site>>
    /\ UNCHANGED <<visited, queue, results, current_url, depth, response, sitemaps>>
    /\ UNCHANGED <<down, full_text, paragraphs, rows>>

TwoRunNext ==
    \/ \E answer \in RobotsAnswers : StartOnSite(answer)
    \/ Discard
    \/ BeginFetch
    \/ FetchOnSite
    \/ SkipFailed
    \/ JsonPage
    \/ JsonError
    \/ HtmlPage
    \/ Finish
    \/ \E flip \in BOOLEAN : Reinvoke(flip)

TwoRunSpec == TwoRunInit /\ [][TwoRunNext]_vars

\* ----------------------------------------- parse_html, the paragraphs field
\* the state of the crawl variables where crawl() is not running
CrawlAtRest ==
    /\ max_depth = 0
    /\ same_domain_only = TRUE
    /\ content_type_preference = "auto"
    /\ site = CHOOSE s \in Sites : TRUE
    /\ visited = {}
    /\ queue = <<>>
    /\ current_url = url
    /\ depth = 0
    /\ response = None
    /\ sitemaps = <<>>
    /\ robots_failed = FALSE
    /\ fetchLog = <<>>
    /\ failed = {}
    /\ enqueued = 0
    /\ dequeued = 0
    /\ enqLog = <<>>
    /\ deqLog = <<>>
    /\ run = 1
    /\ down = {}
    /\ first = None
    /\ flipped = FALSE

Chars == {"a", "."}

Texts == UNION {[1..n -> Chars] : n \in 0..MaxTextLen}

\* parse_html is at line 87 with some concatenation and some limit
TruncInit ==
    /\ CrawlAtRest
    /\ pc = "Paragraphs"
    /\ include_metadata = TRUE
    /\ include_headings = TRUE
    /\ include_paragraphs = TRUE
    /\ extract_images = FALSE
    /\ extract_links = FALSE
    /\ max_content_length \in (0 - NegLimits)..MaxLimit
    /\ full_text \in Texts
    /\ paragraphs = <<>>
    /\ results = <<>>
    /\ rows = <<>>

\* lines 88-90
Paragraphs ==
    /\ pc = "Paragraphs"
    /\ include_paragraphs
    /\ paragraphs' = truncate(full_text, max_content_length)
    /\ pc' = "Parsed"
    /\ UNCHANGED <<config, visited, queue, results, current_url, depth, response, hist>>
    /\ UNCHANGED <<run, down, first, flipped, full_text, rows>>

TruncSpec == TruncInit /\ [][Paragraphs]_vars

\* -------------------------------------------------------- get_table_output
\* page.get(key, default)
get(page, key, default) == IF key \in DOMAIN page THEN page[key] ELSE default

\* mutant of table_row: the row is the record itself
table_row_copy(page) == page

\* lines 182-187
table_row(page) ==
    [url |-> get(page, "url", None),
     metadata |-> get(page, "metadata", None),
     paragraphs |-> get(page, "paragraphs", <<>>),
     headings |-> get(page, "headings", None)]

RECURSIVE table_rows(_)
\* lines 180-188: the loop over the result list
table_rows(list) ==
    IF list = <<>> THEN <<>>
    ELSE <<table_row(Head(list))>> \o table_rows(Tail(list))

\* the records crawl() makes for a URL under the feature toggles: the JSON
\* record of line 143 and the record of parse_html for a page with a link
RecordsOf(u) ==
    {[url |-> u, json |-> "body"], parse_html(Html(<<Rel(1)>>), u)}

\* result lists of crawl(): at most MaxRows records, no URL twice
ResultLists ==
    {list \in UNION {[1..n -> UNION {RecordsOf(u) : u \in URLs}] : n \in 0..MaxRows} :
        \A i, j \in 1..Len(list) : i < j => list[i].url # list[j].url}

\* get_table_output at line 180: crawl() has returned some result list
TableInit ==
    /\ CrawlAtRest
    /\ pc = "Done"
    /\ include_metadata \in BOOLEAN
    /\ include_headings \in BOOLEAN
    /\ include_paragraphs \in BOOLEAN
    /\ extract_images \in BOOLEAN
    /\ extract_links \in BOOLEAN
    /\ max_content_length = DefaultMaxContentLength
    /\ results \in ResultLists
    /\ full_text = <<>>
    /\ paragraphs = <<>>
    /\ rows = <<>>

\* lines 180-190
TableOutput ==
    /\ pc = "Done"
    /\ rows' = table_rows(results)
    /\ pc' = "Projected"
    /\ UNCHANGED <<config, visited, queue, results, current_url, depth, response, hist>>
    /\ UNCHANGED <<run, down, first, flipped, full_text, paragraphs>>

TableSpec == TableInit /\ [][TableOutput]_vars

\* ------------------------------------------------------------- properties
Range(seq) == {seq[i] : i \in 1..Len(seq)}

\* the URLs of the initial frontier: the seed and the sitemap URLs
InitialSeeds == {url} \cup Range(sitemaps)

\* the loop is left, by return or by an exception, in every fair behaviour
LoopTerminates == <>(pc \in {"Done", "Raised"})

\* C1, as claimed: with max_depth = 0 the result list has at most one entry
\* and that entry is the seed URL, whatever robots.txt answers.
C1_Original ==
    max_depth = 0 =>
        /\ Len(results) <= 1
        /\ \A i \in 1..Len(results) : results[i].url = url

\* C1, amended: with max_depth = 0 no link found on a page is enqueued, so
\* only the seed URL and the sitemap URLs returned by the robots.txt lookup
\* are fetched and every record is the record of one of them; when the
\* lookup returns no sitemap URL the result list has at most one entry, the
\* seed.
C1_SeedsOnly ==
    max_depth = 0 =>
        /\ \A i \in 1..Len(results) : results[i].url \in InitialSeeds
        /\ \A i \in 1..Len(queue) : queue[i][1] \in InitialSeeds /\ queue[i][2] = 0
        /\ \A i \in 1..Len(fetchLog) : fetchLog[i] \in InitialSeeds
        /\ (sitemaps = <<>> => Len(results) <= 1)

\* a finished crawl with max_depth = 0 whose seed page has links and was recorded
C1_Witness ==
    /\ max_depth = 0
    /\ pc = "Done"
    /\ site[url].hrefs # <<>>
    /\ Len(results) >= 1
    /\ results[1].url = url

\* C2, as claimed: with same_domain_only = true every record of the result
\* list has a URL whose host is the host of the seed URL.
C2_Claim ==
    same_domain_only =>
        \A i \in 1..Len(results) : netloc(results[i].url) = netloc(url)

\* C3: the result list never holds two records with the same URL.
C3_NoDuplicateRecords ==
    \A i, j \in 1..Len(results) : i < j => results[i].url # results[j].url

\* a finished crawl with several records in which a frontier entry of an
\* already visited URL was dequeued and skipped
C3_Witness ==
    /\ pc = "Done"
    /\ max_depth >= 0
    /\ Len(results) >= 2
    /\ dequeued > Len(fetchLog)

\* C4, as claimed: the loop eventually empties the frontier and reaches Done,
\* every frontier entry having been dequeued exactly once.
C4_Claim == <>(pc = "Done" /\ queue = <<>> /\ dequeued = enqueued)

\* C5: a failed fetch appends no record, leaves the result list, the visited
\* set and the rest of the frontier unchanged and goes back to the loop head;
\* the crawl returns only when every frontier entry has been dequeued.
C5_FailureSkipsOnlyTheUrl ==
    /\ [][(pc = "Classifying" /\ response = None) =>
            (/\ results' = results
             /\ queue' = queue
             /\ visited' = visited
             /\ pc' = "Dequeuing")]_vars
    /\ [](pc = "Done" => (queue = <<>> /\ dequeued = enqueued))

\* a finished crawl in which a fetch failed and a later entry was fetched
\* and processed
C5_Witness ==
    /\ pc = "Done"
    /\ \E i, j \in 1..Len(fetchLog) :
          /\ i < j
          /\ fetchLog[i] \in failed
          /\ fetchLog[i] \notin visited
          /\ \E k \in 1..Len(results) : results[k].url = fetchLog[j]

\* C6, as claimed: a URL whose fetch has failed is never passed to the
\* fetcher again.
C6_Claim == pc = "Fetching" => current_url \notin failed

\* C7, as claimed: every URL that has been passed to the fetcher is in the
\* visited set from that moment on.
C7_Claim == \A i \in 1..Len(fetchLog) : fetchLog[i] \in visited

\* C8: a response taken as JSON whose body does not parse appends no record,
\* enqueues no link and the loop goes on with the next frontier entry.
C8_JsonErrorSkips ==
    [][(pc = "Classifying" /\ response # None /\ is_json(response) /\ ~response.json_ok) =>
         (/\ results' = results
          /\ queue' = queue
          /\ pc' = "Dequeuing")]_vars

\* the loop head after a JSON parse failure on a page that has anchors and
\* is above max_depth, with entries left in the frontier
C8_Witness ==
    /\ pc = "Dequeuing"
    /\ response = site[current_url]
    /\ is_json(response)
    /\ ~response.json_ok
    /\ response.hrefs # <<>>
    /\ may_expand(depth)
    /\ current_url \in visited
    /\ \A i \in 1..Len(results) : results[i].url # current_url
    /\ queue # <<>>

\* C9: when the robots.txt request fails the sitemap list is empty, the
\* crawl starts with the frontier <<(seed, 0)>> and no exception is raised.
C9_RobotsFailureSwallowed ==
    (robots_failed /\ dequeued = 0) =>
        /\ pc = "Dequeuing"
        /\ sitemaps = <<>>
        /\ queue = <<<<url, 0>>>>

\* a crawl that ran to its end after the robots.txt request failed
C9_Witness ==
    /\ robots_failed
    /\ pc = "Done"
    /\ Len(results) >= 1

\* C10, as claimed: a malformed href on an HTML page drops only that link:
\* the record of the page is appended, the other links are enqueued and the
\* loop goes on.
C10_Claim ==
    [][(pc = "Classifying" /\ response # None /\ ~is_json(response) /\ has_bad(response.hrefs)) =>
         (/\ pc' = "Dequeuing"
          /\ Len(results') = Len(results) + 1
          /\ results'[Len(results')].url = current_url
          /\ queue' = IF may_expand(depth)
                      THEN discover(current_url, good(response.hrefs), queue, depth, visited').queue
                      ELSE queue)]_vars

Dots == <<".", ".", ".">>

\* C11, as claimed: for every integer max_content_length the paragraphs
\* output is at most max_content_length + 3 long; it is the concatenation cut
\* at max_content_length and followed by the marker when the concatenation is
\* longer than max_content_length, and the concatenation unchanged otherwise.
C11_Original ==
    pc = "Parsed" =>
        /\ Len(paragraphs) <= max_content_length + 3
        /\ Len(full_text) > max_content_length =>
              /\ Len(paragraphs) >= 3
              /\ SubSeq(paragraphs, Len(paragraphs) - 2, Len(paragraphs)) = Dots
              /\ \A i \in 1..(Len(paragraphs) - 3) : paragraphs[i] = full_text[i]
        /\ Len(full_text) <= max_content_length => paragraphs = full_text

\* C11, amended: the same for every max_content_length >= 0: the output is
\* at most max_content_length + 3 long; when the concatenation is longer than
\* max_content_length it is its first max_content_length characters followed
\* by the three dots, otherwise it is the concatenation unchanged.
C11_TruncationLaw ==
    (pc = "Parsed" /\ max_content_length >= 0) =>
        /\ Len(paragraphs) <= max_content_length + 3
        /\ Len(full_text) > max_content_length =>
              /\ Len(paragraphs) = max_content_length + 3
              /\ SubSeq(paragraphs, max_content_length + 1, max_content_length + 3) = Dots
              /\ \A i \in 1..max_content_length : paragraphs[i] = full_text[i]
        /\ Len(full_text) <= max_content_length => paragraphs = full_text

\* a concatenation that was cut, and one of exactly the limit that was not
C11_Witness ==
    /\ pc = "Parsed"
    /\ max_content_length >= 1
    /\ \/ Len(full_text) > max_content_length /\ Len(paragraphs) = max_content_length + 3
       \/ Len(full_text) = max_content_length /\ paragraphs = full_text /\ full_text[Len(full_text)] = "."

\* the step from Classifying went the JSON way: a {url, json} record was
\* appended, or the body did not parse and nothing was appended
TookJsonPath ==
    \/ results' = results /\ pc' = "Dequeuing"
    \/ /\ Len(results') = Len(results) + 1
       /\ "json" \in DOMAIN results'[Len(results')]

\* the step from Classifying went the HTML way: parse_html ran, and either
\* raised or gave the record that was appended
TookHtmlPath ==
    \/ results' = results /\ pc' = "Raised"
    \/ /\ Len(results') = Len(results) + 1
       /\ DOMAIN results'[Len(results')] = html_fields

\* C12: a response takes the JSON path iff the preference is "json", or the
\* preference is "auto" and the declared content type contains
\* "application/json"; in every other case it takes the HTML path.
C12_Classification ==
    [][(pc = "Classifying" /\ response # None) =>
         LET json_expected ==
                 \/ content_type_preference = "json"
                 \/ /\ content_type_preference = "auto"
                    /\ contains_application_json(response.ctype)
         IN /\ json_expected => (TookJsonPath /\ ~TookHtmlPath)
            /\ ~json_expected => (TookHtmlPath /\ ~TookJsonPath)]_vars

\* a response with an application/json header was parsed as HTML under the
\* preference "html"
C12_Witness ==
    /\ pc = "Dequeuing"
    /\ content_type_preference = "html"
    /\ response = site[current_url]
    /\ contains_application_json(response.ctype)
    /\ results # <<>>
    /\ results[Len(results)].url = current_url
    /\ "json" \notin DOMAIN results[Len(results)]

\* the URLs of the records of a result list, in order
urls_of(list) == [i \in 1..Len(list) |-> list[i].url]

\* C13: the second invocation starts with an empty visited set, an empty
\* result list and the frontier rebuilt from the seed and the sitemaps, and
\* on the unchanged site it fetches the same URLs and ends with the same
\* result list as the first.
C13_NoStateAcrossInvocations ==
    /\ (run = 2 /\ pc = "Dequeuing" /\ dequeued = 0) =>
          /\ visited = {}
          /\ results = <<>>
          /\ queue = <<<<url, 0>>>> \o seed_entries(first.sitemaps)
    /\ (run = 2 /\ ~flipped /\ pc \in {"Done", "Raised"}) =>
          /\ pc = first.pc
          /\ fetchLog = first.fetchLog
          /\ results = first.results

\* a second invocation that returned the several records of the first
C13_Witness ==
    /\ run = 2
    /\ ~flipped
    /\ pc = "Done"
    /\ Len(results) >= 2
    /\ results = first.results
    /\ down # {}

TableFields == {"url", "metadata", "paragraphs", "headings"}

\* C14: the table has one row per record of the result list, in the order
\* of the list, each row with exactly the fields url, metadata, paragraphs
\* and headings, carrying the values of the record where it has them; for
\* JSON records as for HTML records.
C14_TableProjection ==
    pc = "Projected" =>
        /\ Len(rows) = Len(results)
        /\ \A i \in 1..Len(rows) :
              /\ DOMAIN rows[i] = TableFields
              /\ rows[i].url = results[i].url
              /\ \A f \in TableFields \cap DOMAIN results[i] : rows[i][f] = results[i][f]

\* the table of a JSON record and an HTML record with images and links
C14_Witness ==
    /\ pc = "Projected"
    /\ Len(rows) = 2
    /\ \E i, j \in 1..2 :
          /\ "json" \in DOMAIN results[i]
          /\ {"images", "links", "metadata"} \subseteq DOMAIN results[j]
          /\ results[j].links # <<>>

\* C15: the frontier is first-in first-out: the entries dequeued so far,
\* followed by the queue, are the entries enqueued so far in their order; the
\* depths of the dequeued entries never decrease, and no entry still in the
\* queue is shallower than an entry already dequeued.
C15_BreadthFirst ==
    /\ deqLog \o queue = enqLog
    /\ \A i, j \in 1..Len(deqLog) : i < j => deqLog[i][2] <= deqLog[j][2]
    /\ \A i \in 1..Len(deqLog) : \A j \in 1..Len(queue) : deqLog[i][2] <= queue[j][2]

\* a finished crawl that dequeued entries of the depths 0, 1 and 2, several
\* of them of depth 1
C15_Witness ==
    /\ pc = "Done"
    /\ \E i, j, k, l \in 1..Len(deqLog) :
          /\ i < j /\ j < k /\ k < l
          /\ deqLog[i][2] = 0
          /\ deqLog[j][2] = 1
          /\ deqLog[k][2] = 1
          /\ deqLog[l][2] = 2

\* the absolute URLs of the anchors of a page at base that urljoin resolves
resolved_links(base, page) == Range(links_of(base, good(page.hrefs)))

\* C16: after the start, entries are put in the frontier only in a step that
\* appends the HTML record of the page just fetched, at a depth below
\* max_depth; each new entry is a resolved link of that page at the depth of
\* the page plus one and, with same_domain_only, on the host of the seed; so
\* with same_domain_only no entry that comes from a link, and no URL fetched
\* at a depth of 1 or more, is on another host.
C16_LinkEnqueue ==
    /\ [][(pc # "Idle" /\ enqLog' # enqLog) =>
            /\ pc = "Classifying"
            /\ response = site[current_url]
            /\ Len(results') = Len(results) + 1
            /\ results'[Len(results')].url = current_url
            /\ "json" \notin DOMAIN results'[Len(results')]
            /\ depth < max_depth
            /\ Len(enqLog') > Len(enqLog)
            /\ SubSeq(enqLog', 1, Len(enqLog)) = enqLog
            /\ \A i \in (Len(enqLog) + 1)..Len(enqLog') :
                  /\ enqLog'[i][2] = depth + 1
                  /\ enqLog'[i][1] \in resolved_links(current_url, response)
                  /\ same_domain_only => netloc(enqLog'[i][1]) = netloc(url)]_vars
    /\ [](same_domain_only =>
            /\ \A i \in (Len(sitemaps) + 2)..Len(enqLog) : netloc(enqLog[i][1]) = netloc(url)
            /\ (pc = "Fetching" /\ depth >= 1) => netloc(current_url) = netloc(url))

\* a finished crawl with same_domain_only of a seed page with an external
\* link and same-domain links: the same-domain links were enqueued and the
\* external one was never fetched
C16_Witness ==
    /\ pc = "Done"
    /\ same_domain_only
    /\ max_depth >= 1
    /\ sitemaps = <<>>
    /\ site[url] = PageExt(0)
    /\ url \in visited
    /\ Len(enqLog) > 1
    /\ <<OtherHost, 0>> \notin Range(fetchLog)
    /\ <<SeedHost, 1>> \in Range(fetchLog)

\* C17: in a step that puts links in the frontier the URL of the page is in
\* the visited set the links are tested against, and no new entry has a URL
\* of that set, so neither a self-link nor a link back to a page already in
\* visited is enqueued; and no URL of the visited set is passed to the
\* fetcher.
C17_VisitedGuards ==
    /\ [][(pc # "Idle" /\ enqLog' # enqLog) =>
            /\ current_url \in visited'
            /\ visited \subseteq visited'
            /\ \A i \in (Len(enqLog) + 1)..Len(enqLog') :
                  /\ enqLog'[i][1] \notin visited'
                  /\ enqLog'[i][1] # current_url]_vars
    /\ [](pc = "Fetching" => current_url \notin visited)

\* a finished crawl over pages with self-links and links back to the seed,
\* in which the seed was never put in the frontier again but was dequeued
\* some other URL a second time and skipped it
C17_Witness ==
    /\ pc = "Done"
    /\ max_depth >= 2
    /\ sitemaps = <<>>
    /\ site[url] = PageFan(0)
    /\ site[<<SeedHost, 1>>] = PageFan(1)
    /\ {url, <<SeedHost, 1>>} \subseteq visited
    /\ \A i \in 2..Len(enqLog) : enqLog[i][1] # url
    /\ dequeued > Len(fetchLog)

\* C18: a response taken as JSON that parses appends exactly the record
\* {url, json} of the URL, with no other field, and leaves the frontier as it
\* is, at any depth.
C18_JsonRecordOnly ==
    [][(pc = "Classifying" /\ response # None /\ is_json(response) /\ response.json_ok) =>
         /\ Len(results') = Len(results) + 1
         /\ SubSeq(results', 1, Len(results)) = results
         /\ DOMAIN results'[Len(results')] = {"url", "json"}
         /\ results'[Len(results')].url = current_url
         /\ queue' = queue
         /\ enqLog' = enqLog
         /\ pc' = "Dequeuing"]_vars

\* the loop head after the JSON record of a document with an anchor in it,
\* fetched at a depth below max_depth
C18_Witness ==
    /\ pc = "Dequeuing"
    /\ response = site[current_url]
    /\ response.json_ok
    /\ response.hrefs # <<>>
    /\ may_expand(depth)
    /\ results # <<>>
    /\ results[Len(results)] = [url |-> current_url, json |-> "body"]

without_links(r) == [k \in DOMAIN r \ {"links"} |-> r[k]]

\* C20, as claimed: two crawls of the same site that differ only in
\* extract_links end the same way and fetch the same URLs in the same order,
\* and the lists they return hold records of the same URLs in the same order
\* that differ only in the links field.
C20_Claim ==
    (run = 2 /\ flipped /\ pc \in {"Done", "Raised"}) =>
        /\ pc = first.pc
        /\ fetchLog = first.fetchLog
        /\ pc = "Done" =>
              /\ urls_of(results) = urls_of(first.results)
              /\ \A i \in 1..Len(results) :
                    without_links(results[i]) = without_links(first.results[i])

\* the fetch of u succeeds on this site
fetch_succeeds(u) == u \notin down

\* u is served, and taken by the crawl, as an HTML page
html_page(u) == fetch_succeeds(u) /\ ~is_json(site[u])

\* the fetch of u succeeds and its body classifies and parses: as JSON that
\* parses, or as HTML whose fields parse_html extracts
yields_record(u) ==
    /\ fetch_succeeds(u)
    /\ is_json(site[u]) => site[u].json_ok
    /\ ~is_json(site[u]) => ~parse_html_raises(site[u])

\* the links of the page at u that the link loop may enqueue
eligible_links(u) ==
    {l \in resolved_links(u, site[u]) : same_domain_only => netloc(l) = domain}

RECURSIVE within(_)
\* the URLs at most k hops from the seed or a sitemap seed through eligible
\* links of successfully fetched HTML pages
within(k) ==
    IF k < 0 THEN {}
    ELSE IF k = 0 THEN InitialSeeds
    ELSE LET near == within(k - 1)
         IN near \cup UNION {eligible_links(u) : u \in {v \in near : html_page(v)}}

\* C21, as claimed: on a site whose fetch outcomes are fixed per URL, when the
\* crawl is over it has returned a result list that holds a record for every
\* URL within max_depth hops whose fetch succeeds and whose body classifies
\* and parses.
C21_Claim ==
    (pc \in {"Done", "Raised"}) =>
        \A u \in within(max_depth) :
            yields_record(u) => (pc = "Done" /\ u \in Range(urls_of(results)))

\* C22: every frontier entry has a depth of at least 0 and, when
\* max_depth >= 0, of at most max_depth, so an entry discarded at dequeue is
\* then always one of a visited URL; when max_depth < 0 every dequeued entry
\* is discarded, no page is fetched and the result list stays empty.
C22_DepthBound ==
    /\ [](\A i \in 1..Len(queue) :
             /\ queue[i][2] >= 0
             /\ max_depth >= 0 => queue[i][2] <= max_depth)
    /\ [][(max_depth >= 0 /\ dequeued' # dequeued /\ pc' = "Dequeuing") =>
             /\ Head(queue)[2] <= max_depth
             /\ Head(queue)[1] \in visited]_vars
    /\ [][(max_depth < 0 /\ dequeued' # dequeued) =>
             /\ pc' = "Dequeuing"
             /\ queue' = Tail(queue)]_vars
    /\ [](max_depth < 0 =>
             /\ fetchLog = <<>>
             /\ results = <<>>
             /\ visited = {}
             /\ pc \in {"Idle", "Dequeuing", "Done"})

\* a finished crawl with max_depth = 2 that dequeued an entry at depth 2 and
\* discarded an entry
C22_Witness ==
    /\ pc = "Done"
    /\ max_depth = 2
    /\ \E i \in 1..Len(deqLog) : deqLog[i][2] = max_depth
    /\ dequeued > Len(fetchLog)
    /\ dequeued = enqueued

====
